---- MODULE Spec2Model ----
(***************************************************************************)
(* Model of the free-text flashcard parser of FinalDecky.                  *)
(*                                                                         *)
(* Two implementations of parse_free_text are modelled side by side:       *)
(*   impl = "parsing"  src/parsing.py    (the one app.py imports)          *)
(*   impl = "fd"       src/fd_parsing.py                                   *)
(*                                                                         *)
(* A Python str is a sequence of one-character strings.  The en dash       *)
(* U+2013 is written "EN", the em dash U+2014 "EM" and the bullet U+2022   *)
(* "BUL".  Python indexes from 0 and uses -1 for "not found"; the model    *)
(* indexes from 1 and uses 0 for "not found", so a Python index i is the   *)
(* model's i + 1.                                                          *)
(***************************************************************************)
EXTENDS Integers, Sequences, FiniteSets, TLC

VARIABLES impl, text, lines, pos, cur_open, cur_term, cur_def, cur_def_parts,
          records, warnings, pc,
          prev  \* history: the accumulator as the last pass of the loop found it

vars == <<impl, text, lines, pos, cur_open, cur_term, cur_def, cur_def_parts,
          records, warnings, pc, prev>>

----------------------------------------------------------------------------
(* Characters and the str methods the parsers use.                         *)

Whitespace == {" ", "\t", "\n"}
DashChars == {"-", "EN", "EM"}
BulletChars == {"-", "*", "BUL"}
Digits == {"0", "1", "2", "3", "4", "5", "6", "7", "8", "9"}

MinOf(S) == CHOOSE x \in S : \A y \in S : x <= y
MaxOf(S) == CHOOSE x \in S : \A y \in S : x >= y

Slice(s, a, b) == IF a > b THEN <<>> ELSE SubSeq(s, a, b)

\* str.strip()
Strip(s) ==
  LET keep == {i \in 1..Len(s) : s[i] \notin Whitespace}
  IN IF keep = {} THEN <<>> ELSE SubSeq(s, MinOf(keep), MaxOf(keep))

\* str.rstrip()
RStrip(s) ==
  LET keep == {i \in 1..Len(s) : s[i] \notin Whitespace}
  IN IF keep = {} THEN <<>> ELSE SubSeq(s, 1, MaxOf(keep))

\* str.lstrip('-' + en dash + em dash)
LStripDashes(s) ==
  LET keep == {i \in 1..Len(s) : s[i] \notin DashChars}
  IN IF keep = {} THEN <<>> ELSE SubSeq(s, MinOf(keep), Len(s))

\* str.find(c), 0 when c does not occur
Find(s, c) ==
  LET hit == {i \in 1..Len(s) : s[i] = c}
  IN IF hit = {} THEN 0 ELSE MinOf(hit)

\* str.splitlines() for the line boundary "\n"
RECURSIVE SplitLines(_)
SplitLines(s) ==
  IF s = <<>> THEN <<>>
  ELSE LET n == Find(s, "\n")
       IN IF n = 0 THEN <<s>>
          ELSE <<Slice(s, 1, n - 1)>> \o SplitLines(Slice(s, n + 1, Len(s)))

\* " ".join(parts)
RECURSIVE JoinSpace(_)
JoinSpace(parts) ==
  IF parts = <<>> THEN <<>>
  ELSE IF Len(parts) = 1 THEN parts[1]
  ELSE parts[1] \o <<" ">> \o JoinSpace(Tail(parts))

\* utils.normalize_dashes: every em dash becomes the canonical en dash,
\* the typed hyphen is left alone
normalize_dashes(s) == [i \in 1..Len(s) |-> IF s[i] = "EM" THEN "EN" ELSE s[i]]

\* utils.collapse_spaces: every run of spaces and tabs becomes one space
collapse_spaces(s) ==
  LET Blank(i) == s[i] \in {" ", "\t"}
      marked == [i \in 1..Len(s) |->
                   <<IF Blank(i) THEN " " ELSE s[i],
                     ~Blank(i) \/ i = 1 \/ ~Blank(i - 1)>>]
      kept == SelectSeq(marked, LAMBDA m : m[2])
  IN [k \in 1..Len(kept) |-> kept[k][1]]

----------------------------------------------------------------------------
(* The regular expressions.  re.match anchors at the start of the string;  *)
(* every operator returns the match's end (Python's m.end()) or 0.         *)

\* the first index >= i that holds no whitespace, Len(s) + 1 when none
SkipSpaces(s, i) ==
  LET stop == {j \in i..Len(s) : s[j] \notin Whitespace}
  IN IF stop = {} THEN Len(s) + 1 ELSE MinOf(stop)

\* BULLET_RE = ^\s*[\-\*BUL]\s+
BULLET_RE(s) ==
  LET a == SkipSpaces(s, 1)
  IN IF a + 1 <= Len(s) /\ s[a] \in BulletChars /\ s[a + 1] \in Whitespace
     THEN SkipSpaces(s, a + 1) - 1
     ELSE 0

\* NUMBERED_RE = ^\s*\d+[\.)]\s+
NUMBERED_RE(s) ==
  LET a == SkipSpaces(s, 1)
      nd == {j \in a..Len(s) : s[j] \notin Digits}
      d == IF nd = {} THEN Len(s) + 1 ELSE MinOf(nd)
  IN IF d > a /\ d + 1 <= Len(s) /\ s[d] \in {".", ")"} /\ s[d + 1] \in Whitespace
     THEN SkipSpaces(s, d + 1) - 1
     ELSE 0

\* BULLET_RE.match(s) or NUMBERED_RE.match(s): the end of the first that matches
MarkerEnd(s) == IF BULLET_RE(s) # 0 THEN BULLET_RE(s) ELSE NUMBERED_RE(s)

\* DICT_RE = ^\s*([^()\n]+?)\s*\(([^)]+)\)\s+(.+)$ on a string that does not
\* start with whitespace (every caller passes a stripped line or the rest of
\* one after its marker).  The lazy group 1 and the \s* after it cover the
\* text before the first parenthesis, which must be an opening one; group 2
\* runs to the first ")" after it; \s+ is greedy and gives one character back
\* to group 3 only when nothing else is left.
DICT_RE(s) ==
  LET par == {i \in 1..Len(s) : s[i] \in {"(", ")"}}
      p == IF par = {} THEN 0 ELSE MinOf(par)
      cl == {i \in (p + 1)..Len(s) : s[i] = ")"}
      q == IF cl = {} THEN 0 ELSE MinOf(cl)
      r == SkipSpaces(s, q + 1)
      no == [ok |-> FALSE, g1 |-> <<>>, g2 |-> <<>>, g3 |-> <<>>]
  IN IF p < 2 \/ s[p] # "(" \/ \E i \in 1..(p - 1) : s[i] = "\n" THEN no
     ELSE IF q < p + 2 \/ q + 1 > Len(s) \/ s[q + 1] \notin Whitespace THEN no
     ELSE IF r <= Len(s)
          THEN IF \E i \in r..Len(s) : s[i] = "\n" THEN no
               ELSE [ok |-> TRUE, g1 |-> Slice(s, 1, p - 1),
                     g2 |-> Slice(s, p + 1, q - 1), g3 |-> Slice(s, r, Len(s))]
     ELSE IF Len(s) >= q + 2 /\ s[Len(s)] # "\n"
          THEN [ok |-> TRUE, g1 |-> Slice(s, 1, p - 1),
                g2 |-> Slice(s, p + 1, q - 1), g3 |-> <<s[Len(s)]>>]
     ELSE no

\* f"{m.group(1).strip()} ({m.group(2).strip()})"
DictTerm(m) == Strip(m.g1) \o <<" ", "(">> \o Strip(m.g2) \o <<")">>

\* SEP_SPACED_HYPHEN = \s-\s, searched: the start of the first match, which is
\* the whitespace before the hyphen
SEP_SPACED_HYPHEN(s) ==
  LET hit == {i \in 1..(Len(s) - 2) :
                s[i] \in Whitespace /\ s[i + 1] = "-" /\ s[i + 2] \in Whitespace}
  IN IF hit = {} THEN 0 ELSE MinOf(hit)

\* EN_EM_RE = [en dash, em dash], searched
EN_EM_RE(s) ==
  LET hit == {i \in 1..Len(s) : s[i] \in {"EN", "EM"}}
  IN IF hit = {} THEN 0 ELSE MinOf(hit)

----------------------------------------------------------------------------
(* src/parsing.py                                                          *)

RECURSIVE ColonScan(_, _, _)
ColonScan(s, i, depth) ==
  IF i > Len(s) THEN 0
  ELSE IF s[i] = "(" THEN ColonScan(s, i + 1, depth + 1)
  ELSE IF s[i] = ")" THEN ColonScan(s, i + 1, IF depth > 0 THEN depth - 1 ELSE 0)
  ELSE IF s[i] = ":" /\ depth = 0 THEN i
  ELSE ColonScan(s, i + 1, depth)

\* the value of depth in that loop when it reaches position i
RECURSIVE ColonScanDepth(_, _)
ColonScanDepth(s, i) ==
  IF i <= 1 THEN 0
  ELSE LET d == ColonScanDepth(s, i - 1)
       IN IF s[i - 1] = "(" THEN d + 1
          ELSE IF s[i - 1] = ")" THEN (IF d > 0 THEN d - 1 ELSE 0)
          ELSE d

_first_colon_outside_parens(s) == ColonScan(s, 1, 0)

\* no preference: the leftmost of the two matches
_first_en_em_or_spaced_hyphen_Leftmost(s) ==
  LET hit == {EN_EM_RE(s), SEP_SPACED_HYPHEN(s)} \ {0}
  IN IF hit = {} THEN 0 ELSE MinOf(hit)

_first_en_em_or_spaced_hyphen(s) ==
  IF EN_EM_RE(s) # 0 THEN EN_EM_RE(s) ELSE SEP_SPACED_HYPHEN(s)

_is_new_row_marker(line) == BULLET_RE(line) # 0 \/ NUMBERED_RE(line) # 0

\* two re.sub calls, the second on the result of the first
_strip_leading_marker(t) ==
  LET t1 == Slice(t, BULLET_RE(t) + 1, Len(t))
  IN Slice(t1, NUMBERED_RE(t1) + 1, Len(t1))

\* the pair (term, definition) as <<term, definition>>
_split_term_def(line) ==
  LET tb == Find(line, "\t")
      ci == _first_colon_outside_parens(line)
      di == _first_en_em_or_spaced_hyphen(line)
      m == DICT_RE(line)
  IN IF tb # 0 THEN <<Slice(line, 1, tb - 1), Slice(line, tb + 1, Len(line))>>
     ELSE IF ci # 0 THEN <<Slice(line, 1, ci - 1), Slice(line, ci + 1, Len(line))>>
     ELSE IF di # 0 THEN <<Slice(line, 1, di - 1), Slice(line, di + 1, Len(line))>>
     ELSE IF m.ok THEN <<DictTerm(m), m.g3>>
     ELSE <<line, <<>>>>

\* the condition of line 97
split_needed(content) ==
  \/ Find(content, "\t") # 0
  \/ _first_colon_outside_parens(content) # 0
  \/ _first_en_em_or_spaced_hyphen(content) # 0
  \/ DICT_RE(content).ok

\* the record _flush appends
_flush(term, def) ==
  <<collapse_spaces(Strip(LStripDashes(Strip(term)))), collapse_spaces(Strip(def))>>

----------------------------------------------------------------------------
(* src/fd_parsing.py                                                       *)

TermZone == 40

first_colon_outside_parens(s) == ColonScan(s, 1, 0)

first_sep_index(s) ==
  LET ci == first_colon_outside_parens(s)
      en == Find(s, "EN")
      em == Find(s, "EM")
      jh == Find(s, "-")
      cand == (IF ci # 0 THEN {ci} ELSE {})
                \cup (IF en # 0 THEN {en} ELSE IF em # 0 THEN {em} ELSE {})
                \cup (IF jh # 0 THEN {jh} ELSE {})
  IN IF Find(s, "\t") # 0 THEN Find(s, "\t")
     ELSE IF cand = {} THEN 0 ELSE MinOf(cand)

split_term_def_line(line) ==
  LET m == DICT_RE(line)
      i == first_sep_index(line)
  IN IF m.ok THEN <<DictTerm(m), Strip(m.g3)>>
     ELSE IF i # 0
          THEN <<Strip(LStripDashes(Strip(Slice(line, 1, i - 1)))),
                 Strip(Slice(line, i + 1, Len(line)))>>
     ELSE <<Strip(line), <<>>>>

looks_like_item_start(original_line) ==
  LET raw == Strip(original_line)
      i == first_sep_index(raw)
      third == Len(raw) \div 3
  IN IF raw = <<>> THEN FALSE
     ELSE IF MarkerEnd(raw) # 0 THEN TRUE
     ELSE IF i = 0 THEN FALSE
     ELSE i - 1 <= (IF third > TermZone THEN third ELSE TermZone)

\* the record flush appends
flush(term, parts) ==
  LET kept == SelectSeq(parts, LAMBDA p : Strip(p) # <<>>)
  IN <<collapse_spaces(Strip(LStripDashes(Strip(term)))),
       Strip(collapse_spaces(JoinSpace(kept)))>>

----------------------------------------------------------------------------
(* The validation pass, the same in both files.  A warning                 *)
(* "Row {i} has an empty {side} field." is [row |-> i, side |-> side].     *)

\* enumerate(records) without the start index 1
Warning_ZeroBased(i, rec) ==
  [row |-> i - 1, side |-> IF rec[1] = <<>> THEN "Front" ELSE "Back"]

\* the conditional expression testing the back instead of the front
Warning_BackFirst(i, rec) ==
  [row |-> i, side |-> IF rec[2] = <<>> THEN "Back" ELSE "Front"]

Warning(i, rec) == [row |-> i, side |-> IF rec[1] = <<>> THEN "Front" ELSE "Back"]

RECURSIVE ValidateFrom(_, _)
ValidateFrom(recs, i) ==
  IF i > Len(recs) THEN <<>>
  ELSE IF recs[i][1] = <<>> \/ recs[i][2] = <<>>
       THEN <<Warning(i, recs[i])>> \o ValidateFrom(recs, i + 1)
       ELSE ValidateFrom(recs, i + 1)

Validate(recs) == ValidateFrom(recs, 1)

----------------------------------------------------------------------------
(* Input texts: every concatenation of at most MaxToks pieces.             *)

MaxToks == 4

RECURSIVE Texts(_, _)
Texts(pieces, n) ==
  IF n = 0 THEN {<<>>}
  ELSE LET shorter == Texts(pieces, n - 1)
       IN shorter \cup {t \o p : t \in shorter, p \in pieces}

\* single characters: every separator, both marker kinds, parentheses, blanks
Chars ==
  {<<"a">>, <<" ">>, <<"\t">>, <<"\n">>, <<":">>, <<"-">>, <<"EM">>,
   <<"(">>, <<")">>, <<"1">>}

\* words and spaced separators: long enough lines for the dictionary shape,
\* the spaced hyphen and a marker line that follows an open record
Words ==
  {<<"a">>, <<"b">>, <<"\n">>, <<"\t">>, <<"-">>, <<" ", "-", " ">>,
   <<" ", "EM", " ">>, <<" ", ":", " ">>, <<"1", ")", " ">>, <<"*", " ">>,
   <<" ", "(", "v", ")">>}

\* a word longer than the term zone
Filler == [i \in 1..(TermZone + 1) |-> "x"]

LongPieces == {Filler, <<"a">>, <<" ">>, <<"\n">>, <<"\t">>, <<":">>, <<"EM">>}

\* whole lines, each with its line break: a blank line, two lines without a
\* separator, a colon line, a bullet line, a numbered line with a tab and a
\* line with a dash
WholeLines ==
  {<<"\n">>, <<"a", "\n">>, <<"b", " ", "c", "\n">>, <<"d", ":", " ", "e", "\n">>,
   <<"*", " ", "f", "\n">>, <<"1", ")", " ", "g", "\t", "h", "\n">>,
   <<"i", " ", "EM", " ", "j", "\n">>}

----------------------------------------------------------------------------
(* parse_free_text as a state machine: one action per pass of the loop.    *)

Impls == {"parsing", "fd"}

InitWith(inputs) ==
  /\ impl \in Impls
  /\ text \in inputs
  /\ lines = <<>>
  /\ pos = 1
  /\ cur_open = FALSE
  /\ cur_term = <<>>
  /\ cur_def = <<>>
  /\ cur_def_parts = <<>>
  /\ records = <<>>
  /\ warnings = <<>>
  /\ pc = "start"
  /\ prev = [step |-> "none", open |-> FALSE, term |-> <<>>, def |-> <<>>,
             parts |-> <<>>, recs |-> <<>>]

\* the value a pass taking branch `step` stores in prev
Before(step) ==
  [step |-> step, open |-> cur_open, term |-> cur_term, def |-> cur_def,
   parts |-> cur_def_parts, recs |-> records]

Init == InitWith(Texts(Chars, MaxToks))

InitWords == InitWith(Texts(Words, MaxToks))

InitLines == InitWith(Texts(WholeLines, MaxToks))

\* at most one long word in a text
InitLong ==
  InitWith({t \in Texts(LongPieces, MaxToks) : Len(t) <= TermZone + MaxToks})

\* lines 68-69 of parsing.py, 78-79 of fd_parsing.py
SplitText(t) ==
  LET ls == SplitLines(normalize_dashes(t))
  IN [i \in 1..Len(ls) |-> RStrip(ls[i])]

Normalize ==
  /\ pc = "start"
  /\ lines' = SplitText(text)
  /\ pc' = "loop"
  /\ UNCHANGED <<prev, impl, text, pos, cur_open, cur_term, cur_def, cur_def_parts,
                 records, warnings>>

InLoop(i) == pc = "loop" /\ impl = i /\ pos <= Len(lines)

\* the stripped line of this pass
Line == Strip(lines[pos])

\* parsing.py line 93
P_Content == IF _is_new_row_marker(Line) THEN _strip_leading_marker(Line) ELSE Line

\* parsing.py line 100
P_Starts == _is_new_row_marker(Line) \/ ~cur_open \/ split_needed(P_Content)

\* parsing.py lines 86-90
P_Blank ==
  /\ InLoop("parsing")
  /\ Line = <<>>
  /\ cur_def' = IF cur_open THEN cur_def \o <<"\n", "\n">> ELSE cur_def
  /\ pos' = pos + 1
  /\ prev' = Before("P_Blank")
  /\ UNCHANGED <<impl, text, lines, cur_open, cur_term, cur_def_parts, records,
                 warnings, pc>>

\* parsing.py lines 100-105
P_NewRecord ==
  /\ InLoop("parsing")
  /\ Line # <<>>
  /\ P_Starts
  /\ records' = IF cur_open THEN Append(records, _flush(cur_term, cur_def))
                ELSE records
  /\ cur_open' = TRUE
  /\ cur_term' = _split_term_def(P_Content)[1]
  /\ cur_def' = _split_term_def(P_Content)[2]
  /\ pos' = pos + 1
  /\ prev' = Before("P_NewRecord")
  /\ UNCHANGED <<impl, text, lines, cur_def_parts, warnings, pc>>

\* parsing.py lines 106-108
P_Continuation ==
  /\ InLoop("parsing")
  /\ Line # <<>>
  /\ ~P_Starts
  /\ cur_def' = (IF cur_def # <<>> THEN cur_def \o <<" ">> ELSE <<>>) \o P_Content
  /\ pos' = pos + 1
  /\ prev' = Before("P_Continuation")
  /\ UNCHANGED <<impl, text, lines, cur_open, cur_term, cur_def_parts, records,
                 warnings, pc>>

\* the loop ended without the final flush: the open record is dropped
P_FlushTail_DropsRecord ==
  /\ pc = "loop" /\ impl = "parsing" /\ pos > Len(lines)
  /\ records' = records
  /\ cur_open' = FALSE
  /\ cur_term' = <<>>
  /\ cur_def' = <<>>
  /\ pc' = "validate"
  /\ UNCHANGED <<prev, impl, text, lines, pos, cur_def_parts, warnings>>

\* parsing.py line 111
P_FlushTail ==
  /\ pc = "loop" /\ impl = "parsing" /\ pos > Len(lines)
  /\ records' = IF cur_open THEN Append(records, _flush(cur_term, cur_def))
                ELSE records
  /\ cur_open' = FALSE
  /\ cur_term' = <<>>
  /\ cur_def' = <<>>
  /\ pc' = "validate"
  /\ UNCHANGED <<prev, impl, text, lines, pos, cur_def_parts, warnings>>

\* the marker left on the content
F_Content_KeepsMarker == Line

\* fd_parsing.py lines 103-104
F_Content == Slice(Line, MarkerEnd(Line) + 1, Len(Line))

\* the blank-line test missing: a blank line goes on to open a record
F_Blank_OpensRecord ==
  /\ InLoop("fd")
  /\ Line = <<>>
  /\ records' = IF cur_open THEN Append(records, flush(cur_term, cur_def_parts))
                ELSE records
  /\ cur_open' = TRUE
  /\ cur_term' = <<>>
  /\ cur_def_parts' = <<>>
  /\ pos' = pos + 1
  /\ prev' = Before("F_Blank")
  /\ UNCHANGED <<impl, text, lines, cur_def, warnings, pc>>

\* fd_parsing.py lines 97-100
F_Blank ==
  /\ InLoop("fd")
  /\ Line = <<>>
  /\ cur_def_parts' = IF cur_open THEN Append(cur_def_parts, <<>>) ELSE cur_def_parts
  /\ pos' = pos + 1
  /\ prev' = Before("F_Blank")
  /\ UNCHANGED <<impl, text, lines, cur_open, cur_term, cur_def, records,
                 warnings, pc>>

\* fd_parsing.py lines 106-111
F_ItemStart ==
  /\ InLoop("fd")
  /\ Line # <<>>
  /\ looks_like_item_start(Line)
  /\ records' = IF cur_open THEN Append(records, flush(cur_term, cur_def_parts))
                ELSE records
  /\ cur_open' = TRUE
  /\ cur_term' = split_term_def_line(F_Content)[1]
  /\ cur_def_parts' = LET d == split_term_def_line(F_Content)[2]
                      IN IF d # <<>> THEN <<d>> ELSE <<>>
  /\ pos' = pos + 1
  /\ prev' = Before("F_ItemStart")
  /\ UNCHANGED <<impl, text, lines, cur_def, warnings, pc>>

\* fd_parsing.py lines 113-115
F_FirstLine ==
  /\ InLoop("fd")
  /\ Line # <<>>
  /\ ~looks_like_item_start(Line)
  /\ ~cur_open
  /\ cur_open' = TRUE
  /\ cur_term' = F_Content
  /\ cur_def_parts' = <<>>
  /\ pos' = pos + 1
  /\ prev' = Before("F_FirstLine")
  /\ UNCHANGED <<impl, text, lines, cur_def, records, warnings, pc>>

\* fd_parsing.py lines 116-117
F_Continuation ==
  /\ InLoop("fd")
  /\ Line # <<>>
  /\ ~looks_like_item_start(Line)
  /\ cur_open
  /\ cur_def_parts' = Append(cur_def_parts, F_Content)
  /\ pos' = pos + 1
  /\ prev' = Before("F_Continuation")
  /\ UNCHANGED <<impl, text, lines, cur_open, cur_term, cur_def, records,
                 warnings, pc>>

\* fd_parsing.py line 119
F_FlushTail ==
  /\ pc = "loop" /\ impl = "fd" /\ pos > Len(lines)
  /\ records' = IF cur_open THEN Append(records, flush(cur_term, cur_def_parts))
                ELSE records
  /\ cur_open' = FALSE
  /\ cur_term' = <<>>
  /\ cur_def_parts' = <<>>
  /\ pc' = "validate"
  /\ UNCHANGED <<prev, impl, text, lines, pos, cur_def, warnings>>

\* parsing.py lines 114-118, fd_parsing.py lines 121-125
ValidatePass ==
  /\ pc = "validate"
  /\ warnings' = Validate(records)
  /\ pc' = "done"
  /\ UNCHANGED <<prev, impl, text, lines, pos, cur_open, cur_term, cur_def,
                 cur_def_parts, records>>

Next ==
  \/ Normalize
  \/ P_Blank \/ P_NewRecord \/ P_Continuation \/ P_FlushTail
  \/ F_Blank \/ F_ItemStart \/ F_FirstLine \/ F_Continuation \/ F_FlushTail
  \/ ValidatePass

Spec == Init /\ [][Next]_vars

SpecWords == InitWords /\ [][Next]_vars

SpecLong == InitLong /\ [][Next]_vars

SpecLines == InitLines /\ [][Next]_vars

----------------------------------------------------------------------------
(* parse_free_text as a function from the text to the records list: the    *)
(* same loop, folded over the lines.                                       *)

Idle == [open |-> FALSE, term |-> <<>>, def |-> <<>>, parts |-> <<>>, recs |-> <<>>]

\* parsing.py lines 85-108, one pass of the loop
P_Pass(st, raw) ==
  LET line == Strip(raw)
      is_new == _is_new_row_marker(line)
      content == IF is_new THEN _strip_leading_marker(line) ELSE line
      td == _split_term_def(content)
  IN IF line = <<>>
     THEN IF st.open THEN [st EXCEPT !.def = @ \o <<"\n", "\n">>] ELSE st
     ELSE IF is_new \/ ~st.open \/ split_needed(content)
     THEN [st EXCEPT !.open = TRUE, !.term = td[1], !.def = td[2],
                     !.recs = IF st.open THEN Append(@, _flush(st.term, st.def))
                              ELSE @]
     ELSE [st EXCEPT !.def = (IF @ # <<>> THEN @ \o <<" ">> ELSE <<>>) \o content]

\* fd_parsing.py lines 96-117, one pass of the loop
F_Pass(st, raw) ==
  LET line == Strip(raw)
      content == Slice(line, MarkerEnd(line) + 1, Len(line))
      td == split_term_def_line(content)
  IN IF line = <<>>
     THEN IF st.open THEN [st EXCEPT !.parts = Append(@, <<>>)] ELSE st
     ELSE IF looks_like_item_start(line)
     THEN [st EXCEPT !.open = TRUE, !.term = td[1],
                     !.parts = IF td[2] # <<>> THEN <<td[2]>> ELSE <<>>,
                     !.recs = IF st.open THEN Append(@, flush(st.term, st.parts))
                              ELSE @]
     ELSE IF ~st.open
     THEN [st EXCEPT !.open = TRUE, !.term = content, !.parts = <<>>]
     ELSE [st EXCEPT !.parts = Append(@, content)]

RECURSIVE Loop(_, _, _, _)
Loop(which, ls, i, st) ==
  IF i > Len(ls) THEN st
  ELSE Loop(which, ls, i + 1,
            IF which = "parsing" THEN P_Pass(st, ls[i]) ELSE F_Pass(st, ls[i]))

\* the records parse_free_text(t) of implementation `which` returns
ParsedRecords(which, t) ==
  LET st == Loop(which, SplitText(t), 1, Idle)
  IN IF ~st.open THEN st.recs
     ELSE IF which = "parsing" THEN Append(st.recs, _flush(st.term, st.def))
     ELSE Append(st.recs, flush(st.term, st.parts))

----------------------------------------------------------------------------
(* Properties.                                                             *)

\* C1: the warnings list is never longer than the records list, and every
\* warning cites a row in 1..len(records)
C1_WarningsWithinRecords ==
  /\ Len(warnings) <= Len(records)
  /\ \A j \in 1..Len(warnings) : warnings[j].row \in 1..Len(records)

\* two records were returned and both drew a warning
C1_Witness ==
  pc = "done" /\ Len(records) = 2 /\ Len(warnings) = 2 /\ warnings[2].row = 2

AllBlank(t) == \A i \in 1..Len(t) : t[i] \in Whitespace

\* C2: an input of empty and whitespace-only lines opens no record at any
\* point of the run and returns no record and no warning
C2_BlankInputGivesNothing ==
  AllBlank(text) => ~cur_open /\ records = <<>> /\ warnings = <<>>

\* the input "  \n\n" (and the like) has been parsed to the end
C2_Witness ==
  /\ pc = "done" /\ AllBlank(text) /\ Len(lines) >= 2
  /\ \E i \in 1..Len(text) : text[i] # "\n"
  /\ records = <<>> /\ warnings = <<>>

EmptySide(rec) == rec[1] = <<>> \/ rec[2] = <<>>

C9_Exact ==
  pc = "done" =>
    /\ \A i \in 1..Len(records) :
         Cardinality({j \in 1..Len(warnings) : warnings[j].row = i})
           = IF EmptySide(records[i]) THEN 1 ELSE 0
    /\ \A j \in 1..Len(warnings) :
         /\ warnings[j].row \in 1..Len(records)
         /\ warnings[j].side = IF records[warnings[j].row][1] = <<>>
                               THEN "Front" ELSE "Back"
    /\ \A j, k \in 1..Len(warnings) : j < k => warnings[j].row < warnings[k].row

\* C9: after parsing there is exactly one warning per record with an empty
\* side and none for any other record, in record order, citing Front when the
\* front is empty (also when both sides are) and Back when only the back is;
\* the validation pass leaves the records list as it was
C9_ValidationExact ==
  /\ []C9_Exact
  /\ [][pc = "validate" => records' = records]_vars

\* a record with both sides empty and a record with only the back empty were
\* returned, each with its warning
C9_Witness ==
  /\ pc = "done" /\ Len(warnings) = 2
  /\ \E i, k \in 1..Len(records) :
       /\ records[i] = <<<<>>, <<>>>>
       /\ records[k][1] # <<>> /\ records[k][2] = <<>>

----------------------------------------------------------------------------
(* Vocabulary of the properties about single lines.                        *)

\* a pass of the loop has just ended; LastLine is the line it read
AfterPass == pc = "loop" /\ pos > 1
LastLine == Strip(lines[pos - 1])

\* the line without its leading bullet or number marker
AfterMarker(l) == Slice(l, MarkerEnd(l) + 1, Len(l))

\* the record a flush would emit for an open record
Emit(term, def, parts) ==
  IF impl = "parsing" THEN _flush(term, def) ELSE flush(term, parts)

\* for the record open now
Pending == Emit(cur_term, cur_def, cur_def_parts)

\* the records list the last pass leaves if it flushes the record it found
Flushed ==
  IF prev.open THEN Append(prev.recs, Emit(prev.term, prev.def, prev.parts))
  ELSE prev.recs

\* the cleanup every front and every back gets when its record is flushed
CleanFront(s) == collapse_spaces(Strip(LStripDashes(Strip(s))))
CleanBack(s) == collapse_spaces(Strip(s))

\* the separator characters of a line: tabs, colons outside parentheses,
\* en/em dashes, and hyphens with whitespace on both sides
Separators(l) ==
  {i \in 1..Len(l) :
     \/ l[i] = "\t"
     \/ l[i] = ":" /\ ColonScanDepth(l, i) = 0
     \/ l[i] \in {"EN", "EM"}
     \/ /\ l[i] = "-" /\ 1 < i /\ i < Len(l)
        /\ l[i - 1] \in Whitespace /\ l[i + 1] \in Whitespace}

\* hyphens inside a word: no whitespace on at least one side
EmbeddedHyphens(l) ==
  {i \in 1..Len(l) :
     /\ l[i] = "-"
     /\ ~(1 < i /\ i < Len(l) /\ l[i - 1] \in Whitespace /\ l[i + 1] \in Whitespace)}

\* the first max(40, one third of the line) characters
ZoneLen(l) == IF Len(l) \div 3 > TermZone THEN Len(l) \div 3 ELSE TermZone

\* hyphens between two characters of a word
InWordHyphens(l) ==
  {i \in EmbeddedHyphens(l) :
     /\ 1 < i /\ i < Len(l)
     /\ l[i - 1] \notin Whitespace \cup DashChars \cup {":", "(", ")"}
     /\ l[i + 1] \notin Whitespace \cup DashChars \cup {":", "(", ")"}}

HasParens(l) == \E i \in 1..Len(l) : l[i] \in {"(", ")"}

\* the split point of a line: the first tab, else the first colon outside
\* parentheses, else the leftmost en/em dash or spaced hyphen; 0 when none
SplitPoint(l) ==
  LET seps == Separators(l)
      tabs == {i \in seps : l[i] = "\t"}
      colons == {i \in seps : l[i] = ":"}
  IN IF tabs # {} THEN MinOf(tabs)
     ELSE IF colons # {} THEN MinOf(colons)
     ELSE IF seps # {} THEN MinOf(seps)
     ELSE 0

\* the record a line split at position k opens
SplitAt(l, k) ==
  <<CleanFront(Slice(l, 1, k - 1)), CleanBack(Slice(l, k + 1, Len(l)))>>

----------------------------------------------------------------------------

\* C3: while a record is open, a non-blank line without a marker and without
\* a separator in its term zone starts no record: the records list is
\* unchanged and the whole line is appended to the open record's back
C3_NoSeparatorInZoneContinues ==
  (/\ AfterPass /\ prev.open /\ LastLine # <<>> /\ MarkerEnd(LastLine) = 0
   /\ ~DICT_RE(LastLine).ok
   /\ \A i \in Separators(LastLine) : i > ZoneLen(LastLine))
  => /\ records = prev.recs
     /\ cur_open /\ cur_term = prev.term
     /\ IF impl = "parsing"
        THEN cur_def = (IF prev.def # <<>> THEN prev.def \o <<" ">> ELSE <<>>)
                         \o LastLine
        ELSE cur_def_parts = Append(prev.parts, LastLine)

\* C4: a line whose content holds a tab starts a record split at the first
\* tab: the front comes from the text before it, the back from the text
\* after it
C4_TabAlwaysSplits ==
  (AfterPass /\ Find(AfterMarker(LastLine), "\t") # 0)
  => /\ records = Flushed
     /\ cur_open
     /\ Pending = SplitAt(AfterMarker(LastLine), Find(AfterMarker(LastLine), "\t"))

Letters == {"a", "b", "v"}

Plain(s) == s # <<>> /\ \A i \in 1..Len(s) : s[i] \in Letters

\* C5: a line TERM (TAG) : DEFINITION gives exactly one record, front
\* "TERM (TAG)" and back DEFINITION with no colon left in front of it
C5_DictionaryLineWithColon ==
  \A p, q \in 1..Len(text) :
    (/\ pc = "done"
     /\ p >= 3 /\ q > p + 1 /\ q + 4 <= Len(text)
     /\ Plain(Slice(text, 1, p - 2))
     /\ text[p - 1] = " " /\ text[p] = "("
     /\ Plain(Slice(text, p + 1, q - 1))
     /\ text[q] = ")"
     /\ Slice(text, q + 1, q + 3) = <<" ", ":", " ">>
     /\ Plain(Slice(text, q + 4, Len(text))))
    => records = <<<<Slice(text, 1, q), Slice(text, q + 4, Len(text))>>>>

\* C6: a hyphen inside a word is never the split point: a line with such a
\* hyphen and a later colon outside parentheses is split at the colon
C6_EmbeddedHyphenNeverSplits ==
  LET c == AfterMarker(LastLine)
      k == _first_colon_outside_parens(c)
  IN (/\ AfterPass /\ LastLine # <<>>
      /\ Find(c, "\t") = 0 /\ ~HasParens(c)
      /\ \E h \in InWordHyphens(c) : h < k)
     => /\ cur_open
        /\ Pending = SplitAt(c, k)

\* C7: a line that begins with a bullet or number marker and whitespace
\* always starts a new record, the open record being flushed first, and the
\* new record's front is resolved from the line without its marker;
\* "1) a - b" written with an em dash gives front "a", back "b"
C7_MarkerStartsRecord ==
  /\ (AfterPass /\ MarkerEnd(LastLine) # 0)
     => /\ records = Flushed
        /\ cur_open
        /\ \E c \in {AfterMarker(LastLine), AfterMarker(AfterMarker(LastLine))} :
             Pending[1] =
               CleanFront(IF impl = "parsing" THEN _split_term_def(c)[1]
                          ELSE split_term_def_line(c)[1])
  /\ (pc = "done" /\ text = <<"1", ")", " ", "a", " ", "EM", " ", "b">>)
     => records = <<<<<<"a">>, <<"b">>>>>>

\* a marker line has just flushed the record opened by the line before it
C7_Witness ==
  /\ AfterPass /\ pos = 3 /\ cur_open
  /\ MarkerEnd(LastLine) # 0
  /\ prev.open /\ Len(records) = 1 /\ prev.recs = <<>>
  /\ cur_term # <<>>

\* the text of the records, one line front TAB back per record
RECURSIVE Serialize(_)
Serialize(recs) ==
  IF recs = <<>> THEN <<>>
  ELSE IF Len(recs) = 1 THEN recs[1][1] \o <<"\t">> \o recs[1][2]
  ELSE recs[1][1] \o <<"\t">> \o recs[1][2] \o <<"\n">> \o Serialize(Tail(recs))

\* C8: parsing the records written as front TAB back lines returns the
\* same records
C8_RoundTrip ==
  pc = "done" => ParsedRecords(impl, Serialize(records)) = records

\* C10: a line split at a tab, a colon outside parentheses, an en/em dash or
\* a spaced hyphen loses the separator character: the front is the trimmed
\* text before it, the back the trimmed text after it
C10_SeparatorConsumed ==
  (/\ AfterPass /\ prev.step \in {"P_NewRecord", "F_ItemStart"}
   /\ MarkerEnd(LastLine) = 0 /\ ~HasParens(LastLine)
   /\ EmbeddedHyphens(LastLine) = {}
   /\ SplitPoint(LastLine) # 0)
  => Pending = SplitAt(LastLine, SplitPoint(LastLine))

----------------------------------------------------------------------------
(* Vocabulary of the properties about the order of lines and records.      *)

\* the lines the loop has read so far
Seen == IF pc = "start" THEN 0 ELSE IF pc = "loop" THEN pos - 1 ELSE Len(lines)

\* the line is one each parser takes for the start of an item
ItemStart(l) ==
  IF impl = "parsing"
  THEN _is_new_row_marker(l) \/ split_needed(_strip_leading_marker(l))
  ELSE looks_like_item_start(l)

NonBlank(ls) == {i \in 1..Len(ls) : Strip(ls[i]) # <<>>}

\* the lines that open a record: item starts, and the first non-blank line
Openers(ls) ==
  {i \in NonBlank(ls) :
     ItemStart(Strip(ls[i])) \/ \A j \in NonBlank(ls) : i <= j}

\* the k-th element of a set of line numbers
Kth(S, k) == CHOOSE i \in S : Cardinality({j \in S : j < i}) = k - 1

\* the front of the record a line opens
FrontOf(l) ==
  LET content == AfterMarker(l)
      term == IF impl = "parsing" THEN _split_term_def(_strip_leading_marker(l))[1]
              ELSE IF looks_like_item_start(l) THEN split_term_def_line(content)[1]
              ELSE content
  IN CleanFront(term)

\* s is a run of consecutive characters of t
Occurs(s, t) ==
  \E i \in 0..(Len(t) - Len(s)) : SubSeq(t, i + 1, i + Len(s)) = s

\* the records emitted so far, then the open one
Emitted == IF cur_open THEN Append(records, Pending) ELSE records

\* C11: records come in input order, none lost or doubled: at every point
\* there is one record (emitted or still open) per record-opening line read
\* so far, the k-th record's front is the front of the k-th such line, every
\* other non-blank line is found in the back of the record open when it was
\* read, and after the last line no record is left open
C11_RecordsInInputOrder ==
  LET op == {i \in Openers(lines) : i <= Seen}
      rest == {j \in NonBlank(lines) : j <= Seen} \ op
  IN /\ Len(Emitted) = Cardinality(op)
     /\ \A k \in 1..Len(Emitted) :
          Emitted[k][1] = FrontOf(Strip(lines[Kth(op, k)]))
     /\ \A j \in rest :
          LET k == Cardinality({i \in op : i < j})
          IN k >= 1 /\ Occurs(CleanBack(Strip(lines[j])), Emitted[k][2])
     /\ pc \in {"validate", "done"} => ~cur_open

\* three records, the second with a continuation line, all emitted
C11_Witness ==
  /\ pc = "done" /\ Len(records) = 3
  /\ Cardinality(NonBlank(lines)) = 4
  /\ \E j \in NonBlank(lines) \ Openers(lines) :
       Cardinality({i \in Openers(lines) : i < j}) = 2

\* the back a record has when its opening line has just been read
BackOf(l) ==
  LET content == AfterMarker(l)
      def == IF impl = "parsing" THEN _split_term_def(_strip_leading_marker(l))[2]
             ELSE IF looks_like_item_start(l) THEN split_term_def_line(content)[2]
             ELSE <<>>
  IN CleanBack(def)

\* what a non-blank line adds to the back of its record
BackText(ls, i) ==
  IF i \in Openers(ls) THEN BackOf(Strip(ls[i])) ELSE CleanBack(Strip(ls[i]))

\* the last non-blank line before line j
LastNonBlank(ls, j) == MaxOf({i \in NonBlank(ls) : i < j})

\* the continuation lines read so far that follow a blank line and a
\* non-empty back
AfterBreak ==
  {j \in NonBlank(lines) \ Openers(lines) :
     /\ j <= Seen /\ j > 1
     /\ Strip(lines[j - 1]) = <<>>
     /\ BackText(lines, LastNonBlank(lines, j)) # <<>>}

\* back holds a double newline with s somewhere before it and t after it
BreakBetween(back, s, t) ==
  \E p \in 1..(Len(back) - 1) :
    /\ back[p] = "\n" /\ back[p + 1] = "\n"
    /\ Occurs(s, SubSeq(back, 1, p - 1))
    /\ Occurs(t, SubSeq(back, p + 2, Len(back)))

\* C12: a blank line met while a record is open stays as a paragraph break:
\* when a continuation line follows it, the record's back holds a double
\* newline between the text before the blank line and the continuation
C12_BlankLineKeptAsParagraphBreak ==
  \A j \in AfterBreak :
    LET k == Cardinality({i \in Openers(lines) : i < j})
    IN BreakBetween(Emitted[k][2], BackText(lines, LastNonBlank(lines, j)),
                    CleanBack(Strip(lines[j])))

----------------------------------------------------------------------------
(* Vocabulary of the properties about a dash and a spaced hyphen in one    *)
(* line.                                                                   *)

Dashes(l) == {i \in Separators(l) : l[i] \in {"EN", "EM"}}
SpacedHyphens(l) == {i \in Separators(l) : l[i] = "-"}

\* no tab, no colon outside parentheses, an en/em dash and a spaced hyphen
DashAndSpacedHyphen(l) ==
  /\ \A i \in Separators(l) : l[i] \notin {"\t", ":"}
  /\ Dashes(l) # {}
  /\ SpacedHyphens(l) # {}

\* a pass has just opened a record from such a line, which has no marker,
\* no parentheses and no hyphen inside a word
SplitOnDashOrHyphen ==
  /\ AfterPass /\ prev.step \in {"P_NewRecord", "F_ItemStart"}
  /\ MarkerEnd(LastLine) = 0 /\ ~HasParens(LastLine)
  /\ EmbeddedHyphens(LastLine) = {}
  /\ DashAndSpacedHyphen(LastLine)

====
